---- MODULE Spec2Model ----
(***************************************************************************)
(* Model of wia-rs: WIAScanManager (src/src/lib.rs) and the property       *)
(* reader / error translator (src/src/util.rs).                            *)
(*                                                                         *)
(* The imaging subsystem (COM/WIA) and the console are the environment:    *)
(* every call into them draws its outcome nondeterministically.            *)
(***************************************************************************)
EXTENDS Integers, Sequences, FiniteSets, TLC

\* ------------------------------------------------------------ bounds
\* Largest number of entries the device enumerator holds / GetCount reports.
MaxDevices == 2
\* Largest lVal an integer property read yields (-1..MaxLVal; -1 has every
\* bit set).
MaxLVal == 3

\* ------------------------------------------------- program constants
\* WIA document-handling flags, lib.rs:225-226 (FEEDER = 0x1, FLATBED = 0x2).
FEEDER == 1
FLATBED == 2

\* ------------------------------------------------------ util.rs table
\* const ERROR_CODES: [(&str, (&str, &str)); 20], util.rs:54-189.
\* (Two descriptions hold a non-ASCII apostrophe / no-break space in the
\* source; they are written here with their ASCII counterparts.)
ERROR_CODES ==
  <<
    <<"0x80210006",
      <<"WIA_ERROR_BUSY",
        "The device is busy. Close any apps that are using this device or wait for it to finish and then try again.">> >>,
    <<"0x80210016",
      <<"WIA_ERROR_COVER_OPEN",
        "One or more of the device's cover is open.">> >>,
    <<"0x8021000A",
      <<"WIA_ERROR_DEVICE_COMMUNICATION",
        "Communication with the WIA device failed. Make sure that the device is powered on and connected to the PC. If the problem persists, disconnect and reconnect the device.">> >>,
    <<"0x8021000D",
      <<"WIA_ERROR_DEVICE_LOCKED",
        "The device is locked. Close any apps that are using this device or wait for it to finish and then try again.">> >>,
    <<"0x8021000E",
      <<"WIA_ERROR_EXCEPTION_IN_DRIVER",
        "The device driver threw an exception.">> >>,
    <<"0x80210001",
      <<"WIA_ERROR_GENERAL_ERROR",
        "An unknown error has occurred with the WIA device.">> >>,
    <<"0x8021000C",
      <<"WIA_ERROR_INCORRECT_HARDWARE_SETTING",
        "There is an incorrect setting on the WIA device.">> >>,
    <<"0x8021000B",
      <<"WIA_ERROR_INVALID_COMMAND",
        "The device doesn't support this command.">> >>,
    <<"0x8021000F",
      <<"WIA_ERROR_INVALID_DRIVER_RESPONSE",
        "The response from the driver is invalid.">> >>,
    <<"0x80210009",
      <<"WIA_ERROR_ITEM_DELETED",
        "The WIA device was deleted. It's no longer available.">> >>,
    <<"0x80210017",
      <<"WIA_ERROR_LAMP_OFF",
        "The scanner's lamp is off.">> >>,
    <<"0x80210021",
      <<"WIA_ERROR_MAXIMUM_PRINTER_ENDORSER_COUNTER",
        "A scan job was interrupted because an Imprinter/Endorser item reached the maximum valid value for WIA_IPS_PRINTER_ENDORSER_COUNTER, and was reset to 0. This feature is available with Windows 8 and later versions of Windows.">> >>,
    <<"0x80210020",
      <<"WIA_ERROR_MULTI_FEED",
        "A scan error occurred because of a multiple page feed condition. This feature is available with Windows 8 and later versions of Windows.">> >>,
    <<"0x80210005",
      <<"WIA_ERROR_OFFLINE",
        "The device is offline. Make sure the device is powered on and connected to the PC.">> >>,
    <<"0x80210003",
      <<"WIA_ERROR_PAPER_EMPTY",
        "There are no documents in the document feeder.">> >>,
    <<"0x80210002",
      <<"WIA_ERROR_PAPER_JAM",
        "Paper is jammed in the scanner's document feeder.">> >>,
    <<"0x80210004",
      <<"WIA_ERROR_PAPER_PROBLEM",
        "An unspecified problem occurred with the scanner's document feeder.">> >>,
    <<"0x80210007",
      <<"WIA_ERROR_WARMING_UP",
        "The device is warming up.">> >>,
    <<"0x80210008",
      <<"WIA_ERROR_USER_INTERVENTION",
        "There is a problem with the WIA device. Make sure that the device is turned on, online, and any cables are properly connected.">> >>,
    <<"0x80210015",
      <<"WIA_S_NO_DEVICE_AVAILABLE",
        "No scanner device was found. Make sure the device is online, connected to the PC, and has the correct driver installed on the PC.">> >>
  >>

\* --------------------------------------------------- value encodings
\* Option<T>: None is <<>>, Some(x) is <<x>>.
None == <<>>
Some(x) == <<x>>
\* Result<T, String>: Ok(v) is <<"Ok", v>>, Err(msg) is <<"Err", msg>>.
Ok(v) == <<"Ok", v>>
Err(msg) == <<"Err", msg>>
IsOk(r) == r # <<>> /\ r[1] = "Ok"
IsErr(r) == r # <<>> /\ r[1] = "Err"
\* A process abort raised by unwrap() on an Err value.
Panic == <<"panic">>
Unit == "()"

\* HRESULT failure codes the subsystem can hand back (as i32): the 20 codes
\* of the table, and three codes the table does not list
\* (0x80004005, 0x80070005, 0x80210010).
KnownHResults ==
  { -2145320954, -2145320938, -2145320950, -2145320947, -2145320946,
    -2145320959, -2145320948, -2145320949, -2145320945, -2145320951,
    -2145320937, -2145320927, -2145320928, -2145320955, -2145320957,
    -2145320958, -2145320956, -2145320953, -2145320952, -2145320939 }
UnknownHResults == { -2147467259, -2147024891, -2145320944 }
HResults == KnownHResults \cup UnknownHResults

\* The codes handle_error is run on by itself: the whole WIA range
\* 0x80210001..0x80210021 (the 20 listed codes and the unlisted ones between
\* them) and the three unlisted codes above.
TranslateInputs == ((-2145320959)..(-2145320927)) \cup UnknownHResults

\* The failure codes the subsystem calls of list_devices and scan_document
\* draw from: one the table lists (0x80210006), one it does not (0x80004005).
FailCodes == { -2145320954, -2147467259 }

\* ------------------------------------------------------ util.rs code
HexDigit(d) == SubSeq("0123456789ABCDEF", d + 1, d + 1)

RECURSIVE HexDigits(_, _)
HexDigits(n, w) ==
  IF w = 0 THEN "" ELSE HexDigits(n \div 16, w - 1) \o HexDigit(n % 16)

\* err.code().to_string(), util.rs:200: an HRESULT (i32) prints as
\* {:#010X}, the two's-complement bits as 8 upper-case hex digits after
\* "0x".  The top nibble is computed apart so no value leaves 32 bits.
HResultToString(hr) ==
  LET low == IF hr < 0 THEN (hr + 2147483647) + 1 ELSE hr
      top == (IF hr < 0 THEN 8 ELSE 0) + (low \div 268435456)
  IN  "0x" \o HexDigit(top) \o HexDigits(low % 268435456, 7)

\* get_error, util.rs:192-197: first entry of the table whose code equals
\* error_code, mapped to its (name, desc) pair.
get_error(error_code) ==
  LET hits == { k \in 1..Len(ERROR_CODES) : ERROR_CODES[k][1] = error_code }
  IN  IF hits = {}
        THEN None
        ELSE LET first == CHOOSE k \in hits : \A j \in hits : k <= j
             IN  Some(<<ERROR_CODES[first][2][1], ERROR_CODES[first][2][2]>>)

\* util.rs:203-207: the message built from the code and the looked-up entry.
RenderError(code, data) ==
  IF data # None
    THEN code \o " - " \o data[1][1] \o " - " \o data[1][2]
    ELSE "Unknown error"

\* handle_error, util.rs:199-208.
handle_error(err) ==
  LET code == HResultToString(err)
      data == get_error(code)
  IN  RenderError(code, data)

\* s contains t as a contiguous substring.
Contains(s, t) ==
  \E k \in 1..(Len(s) - Len(t) + 1) : SubSeq(s, k, k + Len(t) - 1) = t

\* ------------------------------------------------- console input text
IsSpace(c) == c \in {" ", "\n", "\t", "\r"}

RECURSIVE TrimStart(_)
TrimStart(s) ==
  IF Len(s) > 0 /\ IsSpace(SubSeq(s, 1, 1))
    THEN TrimStart(SubSeq(s, 2, Len(s)))
    ELSE s

RECURSIVE TrimEnd(_)
TrimEnd(s) ==
  IF Len(s) > 0 /\ IsSpace(SubSeq(s, Len(s), Len(s)))
    THEN TrimEnd(SubSeq(s, 1, Len(s) - 1))
    ELSE s

\* str::trim
Trim(s) == TrimEnd(TrimStart(s))

LowerChar(c) ==
  LET upper == "ABCDEFGHIJKLMNOPQRSTUVWXYZ"
      lower == "abcdefghijklmnopqrstuvwxyz"
      at == { k \in 1..Len(upper) : SubSeq(upper, k, k) = c }
  IN  IF at = {} THEN c ELSE LET k == CHOOSE j \in at : TRUE IN SubSeq(lower, k, k)

\* str::to_lowercase
RECURSIVE ToLower(_)
ToLower(s) ==
  IF Len(s) = 0 THEN "" ELSE LowerChar(SubSeq(s, 1, 1)) \o ToLower(SubSeq(s, 2, Len(s)))

DigitOf(c) ==
  LET at == { k \in 1..10 : SubSeq("0123456789", k, k) = c }
  IN  IF at = {} THEN None ELSE Some((CHOOSE k \in at : TRUE) - 1)

RECURSIVE ParseDigits(_, _)
ParseDigits(s, acc) ==
  IF Len(s) = 0 THEN Some(acc)
  ELSE LET d == DigitOf(SubSeq(s, 1, 1))
       IN  IF d = None THEN None
           ELSE ParseDigits(SubSeq(s, 2, Len(s)), acc * 10 + d[1])

\* str::parse::<usize>: an optional '+', then one or more decimal digits.
ParseUsize(s) ==
  LET body == IF Len(s) > 0 /\ SubSeq(s, 1, 1) = "+" THEN SubSeq(s, 2, Len(s)) ELSE s
  IN  IF Len(body) = 0 THEN None ELSE ParseDigits(body, 0)

\* Lines the operator may type (read_line keeps the line end).
ScanAnswers == { "y\n", " Y \n", "n\n", "\n" }
NumberLines == { "1\n", " 2\n", "0\n", "3\n", "x\n", "\n" }
SourceLines == { "1\n", "2\n", "x\n" }

\* ------------------------------------------------ property store reads
\* Texts a BSTR property may hold ("" is the null / empty BSTR).
Texts == { "DEV001", "" }

\* What IWiaPropertyStorage::ReadMultiple can hand back for one property:
\* a failure HRESULT (the PROPVARIANT stays VT_EMPTY), or success with an
\* integer, a text, or a variant of neither type.
FailedReads ==
  { [ok |-> FALSE, hr |-> h, vt |-> "VT_EMPTY", lVal |-> 0, bstr |-> ""] : h \in FailCodes }
IntReads ==
  { [ok |-> TRUE, hr |-> 0, vt |-> "VT_I4", lVal |-> v, bstr |-> ""] : v \in (-1)..MaxLVal }
TextReads ==
  { [ok |-> TRUE, hr |-> 0, vt |-> "VT_BSTR", lVal |-> 0, bstr |-> s] : s \in Texts }
EmptyReads ==
  { [ok |-> TRUE, hr |-> 0, vt |-> "VT_EMPTY", lVal |-> 0, bstr |-> ""] }
ReadOutcomes == FailedReads \cup IntReads \cup TextReads \cup EmptyReads

\* PropVariantClear's HRESULT: 0 (S_OK) or a failure code.
ClearOutcomes == {0} \cup FailCodes

\* Heap allocations a PROPVARIANT owns after the read: the text buffer of a
\* non-empty BSTR.
VariantPayload(rd) == IF rd.ok /\ rd.vt = "VT_BSTR" /\ rd.bstr # "" THEN 1 ELSE 0

\* BSTR::clone (util.rs:29-36) copies the text into a fresh allocation; the
\* empty BSTR is the null pointer and allocates nothing.
BstrCloneAllocs(b) == IF b # "" THEN 1 ELSE 0

\* One record per store read a function made.
ReadRec(prop, rd, extracted, clears, clr) ==
  [prop |-> prop, readOk |-> rd.ok, vt |-> rd.vt, lVal |-> rd.lVal,
   extracted |-> extracted, clears |-> clears, clearOk |-> (clears > 0 /\ clr = 0)]

\* read_bstr_property, util.rs:18-52.  rd is what ReadMultiple hands back,
\* clr what PropVariantClear returns.  `live` counts the heap allocations
\* still allocated when the function returns.
read_bstr_property(prop_id, rd, clr) ==
  IF ~rd.ok
    THEN [ret |-> Err(handle_error(rd.hr)),
          reads |-> << ReadRec(prop_id, rd, FALSE, 0, clr) >>,
          live |-> 0]
    ELSE
      LET isBstr == rd.vt = "VT_BSTR"
          \* bstrVal.clone(): a second allocation, owned by `bstr`
          cloned == IF isBstr THEN BstrCloneAllocs(rd.bstr) ELSE 0
          nonEmpty == isBstr /\ rd.bstr # ""
          \* std::mem::forget(bstr): the clone is never dropped;
          \* on the other branch `bstr` is dropped at the end of the block
          forgotten == IF nonEmpty THEN cloned ELSE 0
          result == IF nonEmpty THEN rd.bstr ELSE ""
          \* PropVariantClear frees the variant's own buffer when it succeeds
          kept == IF clr = 0 THEN 0 ELSE VariantPayload(rd)
      IN  [ret |-> IF clr = 0 THEN Ok(result) ELSE Err(handle_error(clr)),
           reads |-> << ReadRec(prop_id, rd, isBstr, 1, clr) >>,
           live |-> forgotten + kept]

\* ---------------------------------------------- capability detection
\* (v & flag) != 0 for a single-bit flag: \div rounds down and % is never
\* negative, so this is the two's-complement bit of a negative v as well.
HasBit(v, flag) == (v \div flag) % 2 = 1

\* lib.rs:225-226
PrimaryFlags(capabilities) == << HasBit(capabilities, FEEDER), HasBit(capabilities, FLATBED) >>

\* Variant of StatusFlags that takes the flatbed flag from the status bits.
StatusFlagsBothBits(status) == << HasBit(status, FEEDER), HasBit(status, FLATBED) >>
\* lib.rs:252-253
StatusFlags(status) == << HasBit(status, FEEDER), TRUE >>

\* Variant of ApplyDefault without the permissive default.
NoDefault(flags) == flags
\* lib.rs:259-264
ApplyDefault(flags) == IF ~flags[1] /\ ~flags[2] THEN << TRUE, TRUE >> ELSE flags

\* check_scanner_capabilities, lib.rs:196-268.  primary / status are what the
\* two ReadMultiple calls hand back (status is consulted only when that read
\* is made), clr1 / clr2 what PropVariantClear returns for prop_var /
\* status_var.  Flags are <<has_feeder, has_flatbed>>; `reads` lists the
\* store reads made, `live` the allocations left when the function returns.
check_scanner_capabilities(primary, clr1, status, clr2) ==
  LET none == << FALSE, FALSE >>
      p == "WIA_DPS_DOCUMENT_HANDLING_CAPABILITIES"
      s == "WIA_DPS_DOCUMENT_HANDLING_STATUS"
  IN
  IF primary.ok
    THEN
      \* lib.rs:216-233
      LET isInt == primary.vt = "VT_I4"
          flags == IF isInt THEN PrimaryFlags(primary.lVal) ELSE none
          reads == << ReadRec(p, primary, isInt, 1, clr1) >>
      IN  IF clr1 # 0
            THEN [ret |-> Err(handle_error(clr1)), reads |-> reads,
                  live |-> VariantPayload(primary)]
            ELSE [ret |-> Ok(ApplyDefault(flags)), reads |-> reads, live |-> 0]
    ELSE
      \* lib.rs:234-257
      LET first == ReadRec(p, primary, FALSE, 0, clr1)
      IN  IF status.ok
            THEN
              LET isInt == status.vt = "VT_I4"
                  flags == IF isInt THEN StatusFlags(status.lVal) ELSE none
                  reads == << first, ReadRec(s, status, isInt, 1, clr2) >>
              IN  IF clr2 # 0
                    THEN [ret |-> Err(handle_error(clr2)), reads |-> reads,
                          live |-> VariantPayload(status)]
                    ELSE [ret |-> Ok(ApplyDefault(flags)), reads |-> reads, live |-> 0]
            ELSE
              [ret |-> Ok(ApplyDefault(none)),
               reads |-> << first, ReadRec(s, status, FALSE, 0, clr2) >>,
               live |-> 0]

\* ------------------------------------------------------------- state
VARIABLES
  pc,            \* position in list_devices / scan_document
  result,        \* what list_devices returned: <<>> while it runs
  device_map,    \* HashMap<usize, String>, lib.rs:45
  device_count,  \* lib.rs:64
  i,             \* loop variable of lib.rs:68
  avail,         \* entries the enumerator has not handed out yet (environment)
  entries,       \* identifiers read so far, in enumeration order (history)
  device_id,     \* the identifier selected at lib.rs:107: <<>> or <<id>>
  caps_dev,      \* (has_feeder_device, has_flatbed_device): <<>> until set
  caps_item,     \* (has_feeder_item, has_flatbed_item): <<>> until set
  caps,          \* (has_feeder, has_flatbed), lib.rs:144-145: <<>> until set
  use_feeder,    \* lib.rs:152: <<>> until assigned, then <<b>>
  handling_value,\* lib.rs:294: <<>> until computed, then <<v>>
  scan_item,     \* lib.rs:310: <<>> (None) or <<item>>
  scan_result,   \* what scan_document returned: <<>> until it returns
  last,          \* the last property-reading call: its reads, result, heap
  calls,         \* every call into the subsystem or the console, in order
  tpc,           \* position in a stand-alone handle_error call ("off": none)
  terr,          \* its argument: the HRESULT of the Error
  tcode,         \* util.rs:200-201: `code`
  tdata,         \* util.rs:202: `data`
  tmsg,          \* the String it returns: <<>> until it returns
  com,           \* CoInitializeEx calls on the thread not yet balanced by CoUninitialize
  inits,         \* successful CoInitializeEx calls so far (lib.rs:35)
  uninits,       \* CoUninitialize calls so far (lib.rs:27)
  managers       \* WIAScanManager values alive (made by init, not yet dropped)

vars ==
  << pc, result, device_map, device_count, i, avail, entries, device_id,
     caps_dev, caps_item, caps, use_feeder, handling_value, scan_item,
     scan_result, last, calls, tpc, terr, tcode, tdata, tmsg,
     com, inits, uninits, managers >>

mainvars ==
  << pc, result, device_map, device_count, i, avail, entries, device_id,
     caps_dev, caps_item, caps, use_feeder, handling_value, scan_item,
     scan_result, last, calls >>

tvars == << tpc, terr, tcode, tdata, tmsg >>

cvars == << com, inits, uninits, managers >>

LD == "list_devices"
SD == "scan_document"

Call(fn, op, ok) == [fn |-> fn, op |-> op, ok |-> ok]

NoRead == [fn |-> "none", ret |-> <<>>, reads |-> <<>>, live |-> 0]

\* The program's variables before list_devices has run a step.
Fresh ==
  /\ result = <<>>
  /\ device_map = <<>>
  /\ device_count = 0
  /\ i = 0
  /\ entries = <<>>
  /\ device_id = <<>>
  /\ caps_dev = <<>>
  /\ caps_item = <<>>
  /\ caps = <<>>
  /\ use_feeder = <<>>
  /\ handling_value = <<>>
  /\ scan_item = <<>>
  /\ scan_result = <<>>
  /\ last = NoRead
  /\ calls = <<>>

\* One WIAScanManager::init() has returned and its value is alive.
Initialized ==
  /\ com = 1
  /\ inits = 1
  /\ uninits = 0
  /\ managers = 1

\* list_devices is about to run (after one init()); the enumerator holds
\* 0..MaxDevices entries.
Init ==
  /\ Fresh
  /\ pc = "ld_manager"
  /\ avail \in 0..MaxDevices
  /\ tpc = "off"
  /\ terr = 0
  /\ tcode = ""
  /\ tdata = <<>>
  /\ tmsg = <<>>
  /\ Initialized

\* A call that list_devices makes with `.map_err(|e| handle_error(e))?`:
\* on success control moves to `next`, on failure the function returns Err.
LdCall(here, op, next) ==
  /\ pc = here
  /\ \/ /\ calls' = Append(calls, Call(LD, op, TRUE))
        /\ pc' = next
        /\ UNCHANGED result
     \/ \E h \in FailCodes :
          /\ calls' = Append(calls, Call(LD, op, FALSE))
          /\ result' = Err(handle_error(h))
          /\ pc' = "done"

\* The same inside scan_document: on failure scan_document returns Err.
SdCall(here, op, next) ==
  /\ pc = here
  /\ \/ /\ calls' = Append(calls, Call(SD, op, TRUE))
        /\ pc' = next
        /\ UNCHANGED scan_result
     \/ \E h \in FailCodes :
          /\ calls' = Append(calls, Call(SD, op, FALSE))
          /\ scan_result' = Err(handle_error(h))
          /\ pc' = "ld_scan_returned"

\* ------------------------------------------------------ list_devices
\* lib.rs:49-50: CoCreateInstance(..).unwrap() -- a failure panics.
LD_CreateManager ==
  /\ pc = "ld_manager"
  /\ \/ /\ calls' = Append(calls, Call(LD, "CoCreateInstance", TRUE))
        /\ pc' = "ld_enum"
        /\ UNCHANGED result
     \/ /\ calls' = Append(calls, Call(LD, "CoCreateInstance", FALSE))
        /\ result' = Panic
        /\ pc' = "done"
  /\ UNCHANGED << device_map, device_count, i, avail, entries, device_id,
                  caps_dev, caps_item, caps, use_feeder, handling_value, scan_item, scan_result, last >>
  /\ UNCHANGED << tvars, cvars >>

\* lib.rs:53-61: EnumDeviceInfo(..).ok(); None prints "No WIA devices found."
\* and returns Ok(()).
LD_EnumDeviceInfo ==
  /\ pc = "ld_enum"
  /\ \/ /\ calls' = Append(calls, Call(LD, "EnumDeviceInfo", TRUE))
        /\ pc' = "ld_count"
        /\ UNCHANGED result
     \/ /\ calls' = Append(calls, Call(LD, "EnumDeviceInfo", FALSE))
        /\ result' = Ok(Unit)
        /\ pc' = "done"
  /\ UNCHANGED << device_map, device_count, i, avail, entries, device_id,
                  caps_dev, caps_item, caps, use_feeder, handling_value, scan_item, scan_result, last >>
  /\ UNCHANGED << tvars, cvars >>

\* lib.rs:64: GetCount().map_err(..)?
LD_GetCount ==
  /\ pc = "ld_count"
  /\ \/ \E n \in 0..MaxDevices :
          /\ calls' = Append(calls, Call(LD, "GetCount", TRUE))
          /\ device_count' = n
          /\ pc' = "ld_loop"
          /\ UNCHANGED result
     \/ \E h \in FailCodes :
          /\ calls' = Append(calls, Call(LD, "GetCount", FALSE))
          /\ result' = Err(handle_error(h))
          /\ pc' = "done"
          /\ UNCHANGED device_count
  /\ UNCHANGED << device_map, i, avail, entries, device_id,
                  caps_dev, caps_item, caps, use_feeder, handling_value, scan_item, scan_result, last >>
  /\ UNCHANGED << tvars, cvars >>

\* lib.rs:68-75: one turn of `for i in 0..device_count`: Next(1, ..) hands
\* out the next entry, or none once the enumerator is exhausted, or fails.
LD_Next ==
  /\ pc = "ld_loop"
  /\ i < device_count
  /\ \/ /\ avail > 0
        /\ calls' = Append(calls, Call(LD, "Next", TRUE))
        /\ avail' = avail - 1
        /\ pc' = "ld_id"
        /\ UNCHANGED << i, result >>
     \/ /\ avail = 0
        /\ calls' = Append(calls, Call(LD, "Next", TRUE))
        /\ i' = i + 1
        /\ UNCHANGED << avail, pc, result >>
     \/ \E h \in FailCodes :
          /\ calls' = Append(calls, Call(LD, "Next", FALSE))
          /\ result' = Err(handle_error(h))
          /\ pc' = "done"
          /\ UNCHANGED << i, avail >>
  /\ UNCHANGED << device_map, device_count, entries, device_id,
                  caps_dev, caps_item, caps, use_feeder, handling_value, scan_item, scan_result, last >>
  /\ UNCHANGED << tvars, cvars >>

\* Variant of Ordinal that keys the map by the loop index itself.
OrdinalZeroBased(index) == index
\* lib.rs:78-81: the map key of the entry handled in loop turn `index`.
Ordinal(index) == index + 1

\* HashMap::insert
Insert(map, key, value) ==
  [k \in (DOMAIN map) \cup {key} |-> IF k = key THEN value ELSE map[k]]

\* A `read_bstr_property(&dev_info, prop_id)?` call of the loop body: Ok moves
\* on to `next`, Err is returned by list_devices.
LdReadProperty(here, prop_id, next) ==
  /\ pc = here
  /\ \E rd \in ReadOutcomes, clr \in ClearOutcomes :
       LET r == read_bstr_property(prop_id, rd, clr)
       IN  /\ last' = [fn |-> "read_bstr_property", ret |-> r.ret,
                       reads |-> r.reads, live |-> r.live]
           /\ calls' = Append(calls, Call(LD, prop_id, IsOk(r.ret)))
           /\ IF IsOk(r.ret)
                THEN /\ pc' = next
                     /\ UNCHANGED result
                ELSE /\ pc' = "done"
                     /\ result' = r.ret

\* lib.rs:77-81
LD_ReadId ==
  /\ LdReadProperty("ld_id", "WIA_DIP_DEV_ID", "ld_name")
  /\ IF IsOk(last'.ret)
       THEN /\ device_map' = Insert(device_map, Ordinal(i), last'.ret[2])
            /\ entries' = Append(entries, last'.ret[2])
       ELSE UNCHANGED << device_map, entries >>
  /\ UNCHANGED << device_count, i, avail, device_id,
                  caps_dev, caps_item, caps, use_feeder, handling_value, scan_item, scan_result >>
  /\ UNCHANGED << tvars, cvars >>

\* lib.rs:84-85
LD_ReadName ==
  /\ LdReadProperty("ld_name", "WIA_DIP_DEV_NAME", "ld_desc")
  /\ UNCHANGED << device_map, device_count, i, avail, entries, device_id,
                  caps_dev, caps_item, caps, use_feeder, handling_value, scan_item, scan_result >>
  /\ UNCHANGED << tvars, cvars >>

\* lib.rs:88-92, and the loop's step to the next i
LD_ReadDesc ==
  /\ LdReadProperty("ld_desc", "WIA_DIP_DEV_DESC", "ld_loop")
  /\ i' = IF IsOk(last'.ret) THEN i + 1 ELSE i
  /\ UNCHANGED << device_map, device_count, avail, entries, device_id,
                  caps_dev, caps_item, caps, use_feeder, handling_value, scan_item, scan_result >>
  /\ UNCHANGED << tvars, cvars >>

\* Variant of ShouldPrompt that prompts for an empty map too.
PromptAlways(map) == TRUE
\* lib.rs:96: `if !device_map.is_empty()`
ShouldPrompt(map) == DOMAIN map # {}

\* lib.rs:95-101 and 187-192: after the loop, the scan prompt is shown only
\* for a non-empty map; any answer but "y" ends list_devices with Ok(()).
LD_AskScan ==
  /\ pc = "ld_loop"
  /\ ~(i < device_count)
  /\ IF ShouldPrompt(device_map)
       THEN \E input \in ScanAnswers :
              /\ calls' = Append(calls, Call(LD, "stdin:scan?", TRUE))
              /\ IF ToLower(Trim(input)) = "y"
                   THEN pc' = "ld_number" /\ UNCHANGED result
                   ELSE pc' = "done" /\ result' = Ok(Unit)
       ELSE /\ pc' = "done"
            /\ result' = Ok(Unit)
            /\ UNCHANGED calls
  /\ UNCHANGED << device_map, device_count, i, avail, entries, device_id,
                  caps_dev, caps_item, caps, use_feeder, handling_value, scan_item, scan_result, last >>
  /\ UNCHANGED << tvars, cvars >>

\* lib.rs:102-107 and 181-186: the device number is parsed and looked up.
LD_AskNumber ==
  /\ pc = "ld_number"
  /\ \E input \in NumberLines :
       LET device_num == ParseUsize(Trim(input))
       IN  /\ calls' = Append(calls, Call(LD, "stdin:device number", TRUE))
           /\ IF device_num # None /\ device_num[1] \in DOMAIN device_map
                THEN /\ device_id' = Some(device_map[device_num[1]])
                     /\ pc' = "ld_manager2"
                     /\ UNCHANGED result
                ELSE /\ pc' = "done"
                     /\ result' = Ok(Unit)
                     /\ UNCHANGED device_id
  /\ UNCHANGED << device_map, device_count, i, avail, entries,
                  caps_dev, caps_item, caps, use_feeder, handling_value, scan_item, scan_result, last >>
  /\ UNCHANGED << tvars, cvars >>

LdRest ==
  UNCHANGED << device_map, device_count, i, avail, entries, device_id,
               caps_dev, caps_item, caps, use_feeder, handling_value, scan_item,
               scan_result, last, tvars, cvars >>

\* lib.rs:109-111
LD_CreateManager2 == LdCall("ld_manager2", "CoCreateInstance", "ld_create") /\ LdRest
\* lib.rs:113-115
LD_CreateDevice == LdCall("ld_create", "CreateDevice", "ld_children") /\ LdRest
\* lib.rs:119-120
LD_EnumChildItems == LdCall("ld_children", "EnumChildItems", "ld_item") /\ LdRest

\* lib.rs:121-128 and 178-180: Next(1, ..) on the child items; without an
\* item list_devices prints "No scanner item found" and returns Ok(()).
LD_NextItem ==
  /\ pc = "ld_item"
  /\ \/ /\ calls' = Append(calls, Call(LD, "Next(item)", TRUE))
        /\ pc' = "ld_cast_item"
        /\ UNCHANGED result
     \/ /\ calls' = Append(calls, Call(LD, "Next(item)", TRUE))
        /\ pc' = "done"
        /\ result' = Ok(Unit)
     \/ \E h \in FailCodes :
          /\ calls' = Append(calls, Call(LD, "Next(item)", FALSE))
          /\ result' = Err(handle_error(h))
          /\ pc' = "done"
  /\ LdRest

\* lib.rs:129-130
LD_CastItem == LdCall("ld_cast_item", "cast(item)", "ld_cast_device") /\ LdRest
\* lib.rs:133-134
LD_CastDevice == LdCall("ld_cast_device", "cast(device)", "ld_caps_device") /\ LdRest

\* A check_scanner_capabilities call of list_devices (lib.rs:135-136 and
\* 140-141): the environment answers the reads and releases the function
\* makes, in the order it makes them.
LdCheckCapabilities(here, scope, next) ==
  /\ pc = here
  /\ \E primary \in ReadOutcomes :
     \E clr1 \in (IF primary.ok THEN ClearOutcomes ELSE {0}) :
     \E status \in (IF primary.ok THEN {primary} ELSE ReadOutcomes) :
     \E clr2 \in (IF ~primary.ok /\ status.ok THEN ClearOutcomes ELSE {0}) :
       LET r == check_scanner_capabilities(primary, clr1, status, clr2)
       IN  /\ last' = [fn |-> "check_scanner_capabilities", ret |-> r.ret,
                       reads |-> r.reads, live |-> r.live]
           /\ calls' = Append(calls, Call(LD, scope, IsOk(r.ret)))
           /\ IF IsOk(r.ret)
                THEN /\ pc' = next
                     /\ UNCHANGED result
                ELSE /\ pc' = "done"
                     /\ result' = r.ret

\* lib.rs:135-136
LD_CapsDevice ==
  /\ LdCheckCapabilities("ld_caps_device", "check_scanner_capabilities(device)",
                         "ld_caps_item")
  /\ caps_dev' = IF IsOk(last'.ret) THEN last'.ret[2] ELSE caps_dev
  /\ UNCHANGED << device_map, device_count, i, avail, entries, device_id,
                  caps_item, caps, use_feeder, handling_value, scan_item, scan_result >>
  /\ UNCHANGED << tvars, cvars >>

\* lib.rs:140-141
LD_CapsItem ==
  /\ LdCheckCapabilities("ld_caps_item", "check_scanner_capabilities(item)",
                         "ld_combine")
  /\ caps_item' = IF IsOk(last'.ret) THEN last'.ret[2] ELSE caps_item
  /\ UNCHANGED << device_map, device_count, i, avail, entries, device_id,
                  caps_dev, caps, use_feeder, handling_value, scan_item, scan_result >>
  /\ UNCHANGED << tvars, cvars >>

\* Variant of CombineCaps that requires both scopes to report a flag.
CombineCapsAnd(dev, item) == << dev[1] /\ item[1], dev[2] /\ item[2] >>
\* lib.rs:144-145
CombineCaps(dev, item) == << dev[1] \/ item[1], dev[2] \/ item[2] >>

\* lib.rs:143-150
LD_Combine ==
  /\ pc = "ld_combine"
  /\ caps' = CombineCaps(caps_dev, caps_item)
  /\ pc' = "ld_select"
  /\ UNCHANGED << result, device_map, device_count, i, avail, entries, device_id,
                  caps_dev, caps_item, use_feeder, handling_value, scan_item, scan_result,
                  last, calls >>
  /\ UNCHANGED << tvars, cvars >>

\* Variant of LD_SelectSource with the two single-source branches swapped.
LD_SelectSourceSwapped ==
  /\ pc = "ld_select"
  /\ IF caps[1] /\ caps[2]
       THEN \E input \in SourceLines :
              /\ calls' = Append(calls, Call(LD, "stdin:source", TRUE))
              /\ use_feeder' = Some(Trim(input) = "2")
       ELSE /\ use_feeder' = Some(~caps[1])
            /\ UNCHANGED calls
  /\ pc' = "sd_manager"
  /\ UNCHANGED << result, device_map, device_count, i, avail, entries, device_id,
                  caps_dev, caps_item, caps, handling_value, scan_item, scan_result, last >>
  /\ UNCHANGED << tvars, cvars >>

\* lib.rs:152-177: the source is asked for only when both are available;
\* then scan_document(device_id, use_feeder) is entered.
LD_SelectSource ==
  /\ pc = "ld_select"
  /\ IF caps[1] /\ caps[2]
       THEN \E input \in SourceLines :
              /\ calls' = Append(calls, Call(LD, "stdin:source", TRUE))
              /\ use_feeder' = Some(Trim(input) = "2")
       ELSE /\ use_feeder' = Some(caps[1])
            /\ UNCHANGED calls
  /\ pc' = "sd_manager"
  /\ UNCHANGED << result, device_map, device_count, i, avail, entries, device_id,
                  caps_dev, caps_item, caps, handling_value, scan_item, scan_result, last >>
  /\ UNCHANGED << tvars, cvars >>

\* lib.rs:177 and 192: `Self::scan_document(..)?` and the final Ok(()).
LD_ScanReturned ==
  /\ pc = "ld_scan_returned"
  /\ result' = IF IsErr(scan_result) THEN scan_result ELSE Ok(Unit)
  /\ pc' = "done"
  /\ UNCHANGED << device_map, device_count, i, avail, entries, device_id,
                  caps_dev, caps_item, caps, use_feeder, handling_value, scan_item,
                  scan_result, last, calls >>
  /\ UNCHANGED << tvars, cvars >>

\* ------------------------------------------------------ scan_document
SdRest ==
  UNCHANGED << result, device_map, device_count, i, avail, entries, device_id,
               caps_dev, caps_item, caps, use_feeder, handling_value, last, tvars,
               cvars >>

\* lib.rs:274-275
SD_CreateManager ==
  SdCall("sd_manager", "CoCreateInstance", "sd_create") /\ UNCHANGED scan_item /\ SdRest
\* lib.rs:280-282
SD_CreateDevice ==
  SdCall("sd_create", "CreateDevice", "sd_cast_device") /\ UNCHANGED scan_item /\ SdRest
\* lib.rs:286
SD_CastDevice ==
  SdCall("sd_cast_device", "cast(device)", "sd_write") /\ UNCHANGED scan_item /\ SdRest

\* Variant of SD_WriteMultiple in which a failed write returns Err.
SD_WriteMultipleAborts ==
  /\ pc = "sd_write"
  /\ handling_value' = Some(IF use_feeder[1] THEN FEEDER ELSE FLATBED)
  /\ \/ /\ calls' = Append(calls, Call(SD, "WriteMultiple", TRUE))
        /\ pc' = "sd_children"
        /\ UNCHANGED scan_result
     \/ \E h \in FailCodes :
          /\ calls' = Append(calls, Call(SD, "WriteMultiple", FALSE))
          /\ scan_result' = Err(handle_error(h))
          /\ pc' = "ld_scan_returned"
  /\ UNCHANGED << result, device_map, device_count, i, avail, entries, device_id,
                  caps_dev, caps_item, caps, use_feeder, scan_item, last >>
  /\ UNCHANGED << tvars, cvars >>
\* lib.rs:287-306: the document-handling-select write; a failure is only
\* printed as a warning.
SD_WriteMultiple ==
  /\ pc = "sd_write"
  /\ handling_value' = Some(IF use_feeder[1] THEN FEEDER ELSE FLATBED)
  /\ \E ok \in BOOLEAN : calls' = Append(calls, Call(SD, "WriteMultiple", ok))
  /\ pc' = "sd_children"
  /\ UNCHANGED << result, device_map, device_count, i, avail, entries, device_id,
                  caps_dev, caps_item, caps, use_feeder, scan_item, scan_result, last >>
  /\ UNCHANGED << tvars, cvars >>

\* lib.rs:309
SD_EnumChildItems ==
  SdCall("sd_children", "EnumChildItems", "sd_item") /\ UNCHANGED scan_item /\ SdRest

\* Variant of SD_NextItem that goes on to the transfer without an item.
SD_NextItemIgnoresNone ==
  /\ pc = "sd_item"
  /\ \/ /\ calls' = Append(calls, Call(SD, "Next(item)", TRUE))
        /\ pc' = "sd_cast_transfer"
        /\ scan_item' = Some("item")
        /\ UNCHANGED scan_result
     \/ /\ calls' = Append(calls, Call(SD, "Next(item)", TRUE))
        /\ pc' = "sd_cast_transfer"
        /\ scan_item' = None
        /\ UNCHANGED scan_result
     \/ \E h \in FailCodes :
          /\ calls' = Append(calls, Call(SD, "Next(item)", FALSE))
          /\ scan_result' = Err(handle_error(h))
          /\ pc' = "ld_scan_returned"
          /\ UNCHANGED scan_item
  /\ SdRest
\* lib.rs:310-319: Next(1, ..) on the re-enumerated child items; without an
\* item scan_document returns Ok(()).
SD_NextItem ==
  /\ pc = "sd_item"
  /\ \/ /\ calls' = Append(calls, Call(SD, "Next(item)", TRUE))
        /\ pc' = "sd_cast_transfer"
        /\ scan_item' = Some("item")
        /\ UNCHANGED scan_result
     \/ /\ calls' = Append(calls, Call(SD, "Next(item)", TRUE))
        /\ pc' = "ld_scan_returned"
        /\ scan_item' = None
        /\ scan_result' = Ok(Unit)
     \/ \E h \in FailCodes :
          /\ calls' = Append(calls, Call(SD, "Next(item)", FALSE))
          /\ scan_result' = Err(handle_error(h))
          /\ pc' = "ld_scan_returned"
          /\ UNCHANGED scan_item
  /\ SdRest

\* lib.rs:334
SD_CastTransfer ==
  SdCall("sd_cast_transfer", "cast(transfer)", "sd_transfer") /\ UNCHANGED scan_item /\ SdRest

\* lib.rs:336-342: idtGetData into the file medium, then Ok(()).
SD_Transfer ==
  /\ pc = "sd_transfer"
  /\ \/ /\ calls' = Append(calls, Call(SD, "idtGetData", TRUE))
        /\ scan_result' = Ok(Unit)
     \/ \E h \in FailCodes :
          /\ calls' = Append(calls, Call(SD, "idtGetData", FALSE))
          /\ scan_result' = Err(handle_error(h))
  /\ pc' = "ld_scan_returned"
  /\ UNCHANGED scan_item
  /\ SdRest

\* A step of list_devices (scan_document included).
Next ==
  \/ LD_CreateManager
  \/ LD_EnumDeviceInfo
  \/ LD_GetCount
  \/ LD_Next
  \/ LD_ReadId
  \/ LD_ReadName
  \/ LD_ReadDesc
  \/ LD_AskScan
  \/ LD_AskNumber
  \/ LD_CreateManager2
  \/ LD_CreateDevice
  \/ LD_EnumChildItems
  \/ LD_NextItem
  \/ LD_CastItem
  \/ LD_CastDevice
  \/ LD_CapsDevice
  \/ LD_CapsItem
  \/ LD_Combine
  \/ LD_SelectSource
  \/ LD_ScanReturned
  \/ SD_CreateManager
  \/ SD_CreateDevice
  \/ SD_CastDevice
  \/ SD_WriteMultiple
  \/ SD_EnumChildItems
  \/ SD_NextItem
  \/ SD_CastTransfer
  \/ SD_Transfer


Spec == Init /\ [][Next]_vars

\* ------------------------------------------- handle_error by itself
\* handle_error applied to one Error, a line at a time.
InitTranslate ==
  /\ Fresh
  /\ pc = "off"
  /\ avail = 0
  /\ tpc = "format"
  /\ terr \in TranslateInputs
  /\ tcode = ""
  /\ tdata = <<>>
  /\ tmsg = <<>>
  /\ Initialized

\* util.rs:200-201
T_Format ==
  /\ tpc = "format"
  /\ tcode' = HResultToString(terr)
  /\ tpc' = "lookup"
  /\ UNCHANGED << terr, tdata, tmsg, mainvars, cvars >>

\* util.rs:202
T_Lookup ==
  /\ tpc = "lookup"
  /\ tdata' = get_error(tcode)
  /\ tpc' = "render"
  /\ UNCHANGED << terr, tcode, tmsg, mainvars, cvars >>

\* util.rs:203-207
T_Render ==
  /\ tpc = "render"
  /\ tmsg' = Some(RenderError(tcode, tdata))
  /\ tpc' = "done"
  /\ UNCHANGED << terr, tcode, tdata, mainvars, cvars >>

NextTranslate ==
  \/ T_Format
  \/ T_Lookup
  \/ T_Render

SpecTranslate == InitTranslate /\ [][NextTranslate]_vars

\* -------------------------------------------- the public functions
\* WIAScanManager's functions as a caller may use them.  init (lib.rs:33)
\* returns the value whose Drop (lib.rs:24-30) calls CoUninitialize;
\* list_devices (lib.rs:41) and scan_document (lib.rs:270) are associated
\* functions without a self parameter, so a call of them needs no such value.
\* The caller is single-threaded: it calls init or drops a value between
\* calls, makes one list_devices or scan_document call, and may drop values
\* once that call has returned.

\* Largest number of init() calls of one execution.
MaxInits == 2

InitApi ==
  /\ Fresh
  /\ pc = "idle"
  /\ avail \in 0..MaxDevices
  /\ tpc = "off"
  /\ terr = 0
  /\ tcode = ""
  /\ tdata = <<>>
  /\ tmsg = <<>>
  /\ com = 0
  /\ inits = 0
  /\ uninits = 0
  /\ managers = 0

\* init, lib.rs:33-39: CoInitializeEx(None, COINIT_MULTITHREADED).unwrap(),
\* then Ok(WIAScanManager); a failure of CoInitializeEx panics.
API_Init ==
  /\ pc = "idle"
  /\ inits < MaxInits
  /\ \/ /\ com' = com + 1
        /\ inits' = inits + 1
        /\ managers' = managers + 1
        /\ UNCHANGED << pc, result >>
     \/ /\ result' = Panic
        /\ pc' = "done"
        /\ UNCHANGED << com, inits, managers >>
  /\ UNCHANGED << device_map, device_count, i, avail, entries, device_id,
                  caps_dev, caps_item, caps, use_feeder, handling_value, scan_item,
                  scan_result, last, calls, uninits, tvars >>

\* Drop for WIAScanManager, lib.rs:24-30: CoUninitialize().
API_Drop ==
  /\ pc \in {"idle", "done"}
  /\ managers > 0
  /\ managers' = managers - 1
  /\ com' = com - 1
  /\ uninits' = uninits + 1
  /\ UNCHANGED << mainvars, inits, tvars >>

\* A call of list_devices(), lib.rs:41.
API_ListDevices ==
  /\ pc = "idle"
  /\ pc' = "ld_manager"
  /\ UNCHANGED << result, device_map, device_count, i, avail, entries, device_id,
                  caps_dev, caps_item, caps, use_feeder, handling_value, scan_item,
                  scan_result, last, calls, tvars, cvars >>

\* A call of scan_document(device_id, use_feeder), lib.rs:270.
API_ScanDocument ==
  /\ pc = "idle"
  /\ \E id \in Texts, feeder \in BOOLEAN :
       /\ device_id' = Some(id)
       /\ use_feeder' = Some(feeder)
  /\ pc' = "sd_manager"
  /\ UNCHANGED << result, device_map, device_count, i, avail, entries,
                  caps_dev, caps_item, caps, handling_value, scan_item,
                  scan_result, last, calls, tvars, cvars >>

NextApi ==
  \/ API_Init
  \/ API_Drop
  \/ API_ListDevices
  \/ API_ScanDocument
  \/ Next

SpecApi == InitApi /\ [][NextApi]_vars

\* =================================================================
\* Properties
\* =================================================================

\* The last property-reading call was check_scanner_capabilities.
CapsCall == last.fn = "check_scanner_capabilities"
\* A read record that yielded a usable integer.
GaveInt(r) == r.readOk /\ r.vt = "VT_I4"

\* C1 as stated: whenever the primary read gives no usable integer (it
\* failed, or it succeeded with another type), the status property is read,
\* and if that read gives an integer the flags returned are
\* (feeder bit of the status value, TRUE).
C1_Original ==
  CapsCall =>
    LET p == last.reads[1]
    IN  ~GaveInt(p) =>
          /\ Len(last.reads) = 2
          /\ LET s == last.reads[2]
             IN  GaveInt(s) /\ IsOk(last.ret) =>
                   last.ret[2] = << HasBit(s.lVal, FEEDER), TRUE >>

\* C1 amended: the status property is read exactly when the primary read
\* FAILED; if the status read then gives an integer the flags returned are
\* (feeder bit of the status value, TRUE), for every status value.  When the
\* primary read succeeded with a non-integer type no status read is made and
\* the flags returned are the permissive default (TRUE, TRUE).  (The function
\* returns an error instead of flags only when releasing a variant fails.)
C1_Amended ==
  CapsCall =>
    LET p == last.reads[1]
    IN  /\ ~p.readOk =>
             /\ Len(last.reads) = 2
             /\ last.reads[2].prop = "WIA_DPS_DOCUMENT_HANDLING_STATUS"
             /\ LET s == last.reads[2]
                IN  /\ GaveInt(s) /\ IsOk(last.ret) =>
                         last.ret[2] = << HasBit(s.lVal, FEEDER), TRUE >>
                    /\ GaveInt(s) => (IsOk(last.ret) <=> s.clearOk)
        /\ p.readOk =>
             /\ Len(last.reads) = 1
             /\ IsOk(last.ret) <=> p.clearOk
             /\ p.vt # "VT_I4" /\ IsOk(last.ret) => last.ret[2] = << TRUE, TRUE >>

\* Reached: the primary read failed, the status read gave an integer with
\* the feeder bit clear, and (FALSE, TRUE) was returned.
C1_Witness ==
  /\ CapsCall
  /\ ~last.reads[1].readOk
  /\ Len(last.reads) = 2
  /\ GaveInt(last.reads[2])
  /\ ~HasBit(last.reads[2].lVal, FEEDER)
  /\ last.ret = Ok(<< FALSE, TRUE >>)

\* C2: check_scanner_capabilities never returns (FALSE, FALSE); a primary
\* integer with the feeder or the flatbed bit set gives exactly (feeder bit,
\* flatbed bit); when neither read gives an integer the flags are (TRUE, TRUE).
C2_NeverNeither ==
  CapsCall /\ IsOk(last.ret) =>
    LET p == last.reads[1]
        flags == last.ret[2]
        statusInt == Len(last.reads) = 2 /\ GaveInt(last.reads[2])
    IN  /\ flags # << FALSE, FALSE >>
        /\ GaveInt(p) /\ (HasBit(p.lVal, FEEDER) \/ HasBit(p.lVal, FLATBED)) =>
             flags = << HasBit(p.lVal, FEEDER), HasBit(p.lVal, FLATBED) >>
        /\ ~GaveInt(p) /\ ~statusInt => flags = << TRUE, TRUE >>

\* Reached: a primary integer with only the feeder bit gave (TRUE, FALSE).
C2_Witness ==
  /\ CapsCall
  /\ GaveInt(last.reads[1])
  /\ last.reads[1].lVal = FEEDER
  /\ last.ret = Ok(<< TRUE, FALSE >>)

\* C3 as stated: get_error returns the table's (name, description) for each
\* of the 20 listed codes and no entry for any other code, and the message
\* handle_error returns for an unlisted code contains the raw code.
C3_Claim ==
  LET listed == { k \in 1..Len(ERROR_CODES) : ERROR_CODES[k][1] = tcode }
  IN  /\ tpc \in {"render", "done"} =>
           /\ \A k \in listed : tdata = Some(ERROR_CODES[k][2])
           /\ listed = {} => tdata = None
      /\ tpc = "done" /\ tdata = None => Contains(tmsg[1], tcode)

\* The scan_document calls logged so far, as indices into calls.
SdIdx == { k \in 1..Len(calls) : calls[k].fn = SD }
SdDid(op, ok) == \E k \in SdIdx : calls[k].op = op /\ calls[k].ok = ok
SdTried(op) == \E k \in SdIdx : calls[k].op = op

\* C4: in scan_document a failed document-handling-select write does not end
\* the scan: the child items are enumerated next, and the transfer is requested
\* whenever an item and its transfer interface are obtained.  Every other
\* failed call is the last call made, makes scan_document return Err, and no
\* call is made twice.
C4_WriteNonFatal ==
  /\ \A k \in SdIdx :
       ~calls[k].ok /\ calls[k].op # "WriteMultiple" =>
         /\ k = Len(calls)
         /\ IsErr(scan_result)
  /\ \A k \in SdIdx :
       calls[k].op = "WriteMultiple" =>
         \/ k = Len(calls) /\ pc = "sd_children" /\ scan_result = <<>>
         \/ k < Len(calls) /\ calls[k + 1] = Call(SD, "EnumChildItems", TRUE)
         \/ k < Len(calls) /\ calls[k + 1] = Call(SD, "EnumChildItems", FALSE)
  /\ \A j, k \in SdIdx : j # k => calls[j].op # calls[k].op
  /\ SdDid("cast(transfer)", TRUE) /\ scan_result # <<>> => SdTried("idtGetData")
  /\ IsErr(scan_result) => \E k \in SdIdx : ~calls[k].ok /\ calls[k].op # "WriteMultiple"

\* Reached: the write failed and the transfer was still made successfully.
C4_Witness ==
  /\ SdDid("WriteMultiple", FALSE)
  /\ SdDid("idtGetData", TRUE)
  /\ scan_result = Ok(Unit)
  /\ result = Ok(Unit)

\* C5: when the re-enumeration hands out no item, scan_document returns Ok
\* and never asks for the transfer; the transfer (and its interface) is asked
\* for only with an item in hand.
C5_NoItemNoTransfer ==
  /\ SdDid("Next(item)", TRUE) /\ scan_item = None =>
       /\ scan_result = Ok(Unit)
       /\ ~SdTried("cast(transfer)")
       /\ ~SdTried("idtGetData")
       /\ pc \in {"ld_scan_returned", "done"}
       /\ pc = "done" => result = Ok(Unit)
  /\ SdTried("cast(transfer)") \/ SdTried("idtGetData") => scan_item # None

\* Reached: no item after the write, list_devices has returned Ok.
C5_Witness ==
  /\ SdDid("Next(item)", TRUE)
  /\ scan_item = None
  /\ pc = "done"
  /\ result = Ok(Unit)

\* The calls list_devices makes to enumerate the devices.
EnumOps ==
  { "EnumDeviceInfo", "GetCount", "Next",
    "WIA_DIP_DEV_ID", "WIA_DIP_DEV_NAME", "WIA_DIP_DEV_DESC" }
EnumPcs == { "ld_manager", "ld_enum", "ld_count", "ld_loop", "ld_id", "ld_name", "ld_desc" }
\* The failed steps of the enumeration (the first CoCreateInstance included).
EnumFailures ==
  { k \in 1..Len(calls) :
      /\ calls[k].fn = LD
      /\ ~calls[k].ok
      /\ \/ calls[k].op \in EnumOps
         \/ calls[k].op = "CoCreateInstance" /\ k = 1 }

\* C6 as stated: every failing step of the enumeration in list_devices ends
\* the function at once with the failure surfaced (an Err, or the abort of
\* the process); none is turned into a successful return.
C6_Claim ==
  \A k \in EnumFailures :
    /\ k = Len(calls)
    /\ IsErr(result) \/ result = Panic

LdDid(op, ok) == \E k \in 1..Len(calls) : calls[k] = Call(LD, op, ok)
\* The entries the enumerator handed out: each is followed by its id read.
Handed == Cardinality({ k \in 1..Len(calls) : calls[k].fn = LD /\ calls[k].op = "WIA_DIP_DEV_ID" })
\* The enumeration pass (GetCount and the whole loop) ended without a failure.
PassSucceeded ==
  /\ LdDid("GetCount", TRUE)
  /\ \A k \in 1..Len(calls) : calls[k].fn = LD /\ calls[k].op \in EnumOps => calls[k].ok
  /\ \/ pc = "ld_loop" /\ ~(i < device_count)
     \/ pc \notin EnumPcs

\* C7: after a successful pass over N entries the keys of device_map are
\* exactly 1..N, and key k holds the identifier read from the k-th entry.
C7_Ordinals ==
  PassSucceeded =>
    /\ DOMAIN device_map = 1..Handed
    /\ Len(entries) = Handed
    /\ \A k \in 1..Handed : device_map[k] = entries[k]

\* Reached: a pass over two entries whose identifier reads differ (the first
\* gave no text, the second "DEV001").
C7_Witness ==
  /\ PassSucceeded
  /\ Handed = 2
  /\ device_map[1] = ""
  /\ device_map[2] = "DEV001"

\* Calls that follow the scan prompt: opening the device, detection, the scan.
AfterPrompt(c) ==
  \/ c.fn = SD
  \/ c.op \in { "stdin:scan?", "stdin:device number", "stdin:source", "CreateDevice",
                "EnumChildItems", "Next(item)", "cast(item)", "cast(device)",
                "check_scanner_capabilities(device)", "check_scanner_capabilities(item)" }

\* C8: when the enumeration hands out no device, list_devices returns Ok
\* without showing the scan prompt, opening a device, detecting capabilities
\* or scanning.
C8_EmptyCatalog ==
  PassSucceeded /\ Handed = 0 =>
    /\ DOMAIN device_map = {}
    /\ pc \in {"ld_loop", "done"}
    /\ pc = "done" => result = Ok(Unit)
    /\ \A k \in 1..Len(calls) : ~AfterPrompt(calls[k])

\* Reached: GetCount reported devices, none was handed out, Ok was returned.
C8_Witness ==
  /\ PassSucceeded
  /\ Handed = 0
  /\ device_count > 0
  /\ pc = "done"
  /\ result = Ok(Unit)

\* C9: the flags the source is selected from are, flag by flag, the OR of
\* the device-scope and the item-scope result; the source follows from them.
C9_CombineOr ==
  caps # <<>> =>
    /\ caps[1] <=> (caps_dev[1] \/ caps_item[1])
    /\ caps[2] <=> (caps_dev[2] \/ caps_item[2])
    /\ use_feeder # <<>> /\ ~(caps[1] /\ caps[2]) => use_feeder[1] = caps[1]

\* Reached: device (FALSE, TRUE) and item (TRUE, FALSE) gave (TRUE, TRUE).
C9_Witness ==
  /\ caps_dev = << FALSE, TRUE >>
  /\ caps_item = << TRUE, FALSE >>
  /\ caps = << TRUE, TRUE >>

\* C10 as stated: every property read that succeeded has its variant
\* released exactly once before the function returns and leaves no
\* allocation behind; a read that failed is returned as an error, with no
\* extraction (and no release).
C10_Claim ==
  last.fn # "none" =>
    /\ \A k \in 1..Len(last.reads) :
         LET r == last.reads[k]
         IN  /\ r.readOk => r.clears = 1
             /\ ~r.readOk => r.clears = 0 /\ ~r.extracted /\ IsErr(last.ret)
    /\ (\A k \in 1..Len(last.reads) : last.reads[k].readOk => last.reads[k].clearOk)
         => last.live = 0

\* C12: whenever list_devices enters scan_document, both detections have
\* returned Ok and the source handed over is one the combined flags report:
\* use_feeder only with the feeder flag, flatbed only with the flatbed flag,
\* whatever the operator typed; the value written is that source's constant.
C12_SourceAvailable ==
  /\ use_feeder # <<>> =>
       /\ LdDid("check_scanner_capabilities(device)", TRUE)
       /\ LdDid("check_scanner_capabilities(item)", TRUE)
       /\ caps_dev # <<>> /\ caps_item # <<>> /\ caps # <<>>
       /\ use_feeder[1] => caps[1]
       /\ ~use_feeder[1] => caps[2]
  /\ SdIdx # {} \/ scan_result # <<>> => use_feeder # <<>>
  /\ handling_value # <<>> =>
       handling_value[1] = IF use_feeder[1] THEN FEEDER ELSE FLATBED

\* Reached: only the feeder was detected (at either scope), and scan_document
\* was entered with the feeder and wrote FEEDER.
C12_Witness ==
  /\ caps = << TRUE, FALSE >>
  /\ use_feeder = << TRUE >>
  /\ handling_value = << FEEDER >>
  /\ SdDid("WriteMultiple", TRUE)

\* A device or property operation is running or has run.
OperationStarted == pc \notin {"idle", "off"} /\ (pc = "done" => calls # <<>>)
OperationRunning == pc \notin {"idle", "off", "done"}

\* C11 as stated: the subsystem is initialized exactly once, before any
\* device or property operation, and torn down exactly once, after the last
\* one: no operation starts without a successful initialization before it,
\* none runs after the teardown, and there is never a second initialization
\* or teardown.
C11_Claim ==
  /\ inits <= 1
  /\ uninits <= 1
  /\ OperationStarted => inits = 1
  /\ OperationRunning => com = 1 /\ uninits = 0
====
